---- MODULE Spec2Model ----
(***************************************************************************)
(* A model of the scripted telnet session engine: the Telnet transport     *)
(* (src/src/telnet.ts), the settlement-tracked connect promise             *)
(* (src/src/queryable-promise.ts) and the TelnetSequence automaton with    *)
(* its Emitter bridge queue (src/src/telnet-sequence.ts, lines 147-345).   *)
(*                                                                         *)
(* Bytes are integers 0..255, text is a sequence of UTF-16 code units,     *)
(* a hex string is a sequence of nibbles 0..15.  Time is counted in ticks  *)
(* of one second.                                                          *)
(***************************************************************************)
EXTENDS Integers, Sequences, FiniteSets, TLC

VARIABLES
  \* ---- TelnetSequence instance and the locals of process() ----
  steps,          \* this.steps: the script
  hasHandler,     \* whether process() was given an escapeHandler
  stripControls,  \* this.opts.stripControls
  sessionTimeout, \* this.opts.sessionTimeout, in ticks
  step,           \* this.step: the script cursor
  pc,             \* position of process() and of its async loop
  line,           \* the loop's local `line` (the value get() resolved with)
  connected,      \* local `connected`
  sessionTimer,   \* ticks left on the session timer, Off when not armed
  buffer,         \* local `buffer`
  pending,        \* lineSource.pending
  waiting,        \* lineSource._resolve is set
  outcome,        \* the promise process() returned: pending/resolved/rejected
  rejectErr,      \* the error process() rejected with
  \* ---- Telnet instance and its socket ----
  extSock,        \* opts.extSock given ("none", "valid", "invalid")
  sock,           \* socket life cycle: none/open/ended/errored/closed/destroyed
  sockTimer,      \* ticks left until the socket's idle timeout, Off if not armed
  promise,        \* state of the connect promise: none/pending/resolved/rejected
  isResolved, isRejected, isSettled,  \* QueryablePromise flags
  written,        \* every payload handed to socket.write, in order
  writes,         \* Telnet.write calls in flight (sendHandler + timer each)
  \* ---- observation logs ----
  sends,          \* responses passed to telnet.send by the loop, in order
  delivered,      \* lines handed to lineReceiver, in order
  escapes,        \* sequences handed to escapeHandler, in order
  chunksLeft,     \* socket 'data' events the environment may still deliver
  sinceChunk,     \* ticks since the last telnet 'data' event (or connect)
  failure,        \* first error event / timer expiry after connect, else NoFailure
  ended,          \* an 'end'/'close' event was seen after connect, unsettled
  stopped,        \* lineReceiver returned true
  \* ---- harness for the pure functions ----
  chunk,          \* input of parseData / remaining input chunks of the filter
  fnOut,          \* what the function under test returned / wrote
  fnPc            \* "in" before the call, "out" after it

sessionVars == <<steps, hasHandler, stripControls, sessionTimeout, step, pc, line,
                 connected, sessionTimer, buffer, pending, waiting, outcome,
                 rejectErr>>
telnetVars  == <<extSock, sock, sockTimer, promise, isResolved, isRejected,
                 isSettled, written, writes>>
logVars     == <<sends, delivered, escapes, chunksLeft, sinceChunk,
                 failure, ended, stopped>>
fnVars      == <<chunk, fnOut, fnPc>>
vars        == <<sessionVars, telnetVars, logVars, fnVars>>

----------------------------------------------------------------------------
(* Character and byte constants the code names by literal.                 *)
IAC == 255
ESC == 27
LF  == 10
CR  == 13
TAB == 9
SPACE == 32
REPLACEMENT == 65533

Null == <<-1>>       \* a null Buffer / null queue item payload
Off  == -1           \* a timer that is not armed

Min(a, b) == IF a < b THEN a ELSE b

\* String.prototype.substr(start, n) on a 0-based start.
substr(s, start, n) == SubSeq(s, start + 1, Min(start + n, Len(s)))

\* Buffer.prototype.slice(from) / String.prototype.substring(from), 0-based.
sliceFrom(s, from) == SubSeq(s, from + 1, Len(s))

----------------------------------------------------------------------------
(* Telnet.negotiate and Telnet.parseData (src/src/telnet.ts 230-272).      *)

\* Buffer.toString('hex'): two nibbles per byte.
RECURSIVE toHex(_)
toHex(b) ==
  IF b = <<>> THEN <<>>
  ELSE <<Head(b) \div 16, Head(b) % 16>> \o toHex(Tail(b))

\* Buffer.from(h, 'hex'): one byte per pair of nibbles, a trailing odd nibble
\* is dropped.
RECURSIVE fromHex(_)
fromHex(h) ==
  IF Len(h) < 2 THEN <<>>
  ELSE <<h[1] * 16 + h[2]>> \o fromHex(sliceFrom(h, 2))

\* String.prototype.replace with a global two-character literal pattern: the
\* hex string is scanned left to right, character by character, without any
\* regard for byte boundaries.
RECURSIVE replace(_, _, _)
replace(h, from, to) ==
  IF Len(h) < 2 THEN h
  ELSE IF <<h[1], h[2]>> = from THEN to \o replace(sliceFrom(h, 2), from, to)
  ELSE <<h[1]>> \o replace(Tail(h), from, to)

\* for (i = 0; i < packetLength; i += 3) if (chunk[i] !== 255) break
RECURSIVE breakIndex(_, _)
breakIndexSkewed(c, i) ==
  IF i >= Len(c) THEN -1
  ELSE IF c[i + 1] # IAC THEN i + 1
  ELSE breakIndex(c, i + 3)
breakIndex(c, i) ==
  IF i >= Len(c) THEN -1
  ELSE IF c[i + 1] # IAC THEN i
  ELSE breakIndex(c, i + 3)

\* The reply to the six hex characters at offset i.
negRespAtNoSubneg(chunkHex, defaultResponse, i) ==
  LET key == substr(chunkHex, i + 2, 4) IN
  IF key = <<15, 13, 1, 8>> THEN <<15, 15, 15, 11, 1, 8>>
  ELSE IF key = <<15, 13, 1, 15>> THEN <<15, 15, 15, 11, 1, 15>>
  ELSE substr(defaultResponse, i, 6)
negRespAt(chunkHex, defaultResponse, i) ==
  LET key == substr(chunkHex, i + 2, 4) IN
  IF key = <<15, 13, 1, 8>> THEN <<15, 15, 15, 11, 1, 8>>
  ELSE IF key = <<15, 13, 1, 15>>
    THEN <<15, 15, 15, 11, 1, 15, 15, 15, 15, 10, 1, 15,
           2, 7, 0, 15, 2, 7, 0, 15, 15, 15, 15, 0>>
  ELSE substr(defaultResponse, i, 6)

\* for (i = 0; i < chunkHex.length; i += 6) negResp += ...
RECURSIVE negRespFrom(_, _, _)
negRespFrom(chunkHex, defaultResponse, i) ==
  IF i >= Len(chunkHex) THEN <<>>
  ELSE negRespAt(chunkHex, defaultResponse, i)
         \o negRespFrom(chunkHex, defaultResponse, i + 6)

\* negotiate: the payload returned (cmdData) and the socket writes made.
negotiate(c, writable) ==
  LET i       == breakIndex(c, 0)
      negData == IF i < 0 THEN c ELSE SubSeq(c, 1, i)
      cmdData == IF i < 0 THEN Null ELSE sliceFrom(c, i)
      chunkHex == toHex(c)
      defaultResponse ==
        replace(replace(toHex(negData), <<15, 13>>, <<15, 12>>),
                <<15, 11>>, <<15, 13>>)
      negResp == negRespFrom(chunkHex, defaultResponse, 0)
  IN [cmdData |-> cmdData,
      wrote   |-> IF writable THEN <<fromHex(negResp)>> ELSE <<>>]

\* parseData: chunk[1] of a one-byte chunk is undefined, which is not 255.
parseData(c, writable) ==
  IF Len(c) >= 1 /\ c[1] = IAC /\ (Len(c) < 2 \/ c[2] # IAC)
  THEN negotiate(c, writable)
  ELSE [cmdData |-> c, wrote |-> <<>>]

----------------------------------------------------------------------------
(* Text handling of the TelnetSequence 'data' handler                      *)
(* (src/src/telnet-sequence.ts 212-234 and 292-341).                       *)

\* Buffer.toString(): UTF-8 decoding.  A byte below 128 is its own code
\* unit; the bytes the model feeds above 127 (0xF5..0xFF) never occur in
\* well-formed UTF-8 and each decodes to U+FFFD.
RECURSIVE toString(_)
toString(b) ==
  IF b = <<>> THEN <<>>
  ELSE <<IF Head(b) < 128 THEN Head(b) ELSE REPLACEMENT>> \o toString(Tail(b))

\* .replace(/\r\r\n/g, '\n')
RECURSIVE replaceCRCRLF(_)
replaceCRCRLF(s) ==
  IF s = <<>> THEN <<>>
  ELSE IF Len(s) >= 3 /\ SubSeq(s, 1, 3) = <<CR, CR, LF>>
    THEN <<LF>> \o replaceCRCRLF(sliceFrom(s, 3))
  ELSE <<Head(s)>> \o replaceCRCRLF(Tail(s))

\* .replace(/\r\n?/g, '\n')
RECURSIVE replaceCRLF(_)
replaceCRLF(s) ==
  IF s = <<>> THEN <<>>
  ELSE IF Head(s) = CR
    THEN IF Len(s) >= 2 /\ s[2] = LF
           THEN <<LF>> \o replaceCRLF(sliceFrom(s, 2))
           ELSE <<LF>> \o replaceCRLF(Tail(s))
  ELSE <<Head(s)>> \o replaceCRLF(Tail(s))

normalize(s) == replaceCRLF(replaceCRCRLF(s))

\* /[a-z]/i.test(ch)
isAlphaLower(ch) == ch >= 97 /\ ch <= 122
isAlpha(ch) == (ch >= 65 /\ ch <= 90) \/ (ch >= 97 /\ ch <= 122)

\* The escapeHandler of src/src/app.ts 54-61: the reply to a cursor-position
\* query and to reverse video, null (here <<>>) otherwise.
escapeHandler(esc) ==
  IF esc = <<ESC, 91, 54, 110>> THEN <<ESC, 91, 50, 52, 59, 56, 48, 82>>
  ELSE IF esc = <<ESC, 91, 55, 109>> THEN <<SPACE>>
  ELSE <<>>

\* The per-chunk state of processEscapesAndControls before the first character.
peacInit ==
  [result |-> <<>>, startEscape |-> FALSE, inEscape |-> FALSE,
   escSequence |-> <<>>, calls |-> <<>>, replies |-> <<>>]

\* One iteration of `for (const ch of s.split(''))`.
peacStepNoTab(st, ch, strip, handler) ==
  LET a == IF st.startEscape
             THEN [st EXCEPT !.escSequence = @ \o <<ch>>, !.startEscape = FALSE,
                             !.inEscape = IF ch = 91 THEN TRUE ELSE @]
           ELSE IF st.inEscape
             THEN [st EXCEPT !.escSequence = @ \o <<ch>>,
                             !.inEscape = ~isAlpha(ch)]
           ELSE IF ch = ESC
             THEN [st EXCEPT !.escSequence = <<ch>>, !.startEscape = TRUE]
           ELSE IF ~strip \/ ch >= 32 \/ ch \in {CR, LF}
             THEN [st EXCEPT !.result = @ \o <<ch>>]
           ELSE st
      gotEscape == \/ st.startEscape /\ ch # 91
                   \/ ~st.startEscape /\ st.inEscape /\ isAlpha(ch)
      response == escapeHandler(a.escSequence)
      b == IF handler
             THEN [a EXCEPT !.calls = @ \o <<a.escSequence>>,
                            !.replies = IF response # <<>>
                                          THEN @ \o <<response>> ELSE @]
             ELSE a
  IN IF gotEscape
       THEN IF strip THEN b ELSE [b EXCEPT !.result = @ \o b.escSequence]
       ELSE a
peacStep(st, ch, strip, handler) ==
  LET a == IF st.startEscape
             THEN [st EXCEPT !.escSequence = @ \o <<ch>>, !.startEscape = FALSE,
                             !.inEscape = IF ch = 91 THEN TRUE ELSE @]
           ELSE IF st.inEscape
             THEN [st EXCEPT !.escSequence = @ \o <<ch>>,
                             !.inEscape = ~isAlpha(ch)]
           ELSE IF ch = ESC
             THEN [st EXCEPT !.escSequence = <<ch>>, !.startEscape = TRUE]
           ELSE IF ~strip \/ ch >= 32 \/ ch \in {TAB, CR, LF}
             THEN [st EXCEPT !.result = @ \o <<ch>>]
           ELSE st
      gotEscape == \/ st.startEscape /\ ch # 91
                   \/ ~st.startEscape /\ st.inEscape /\ isAlpha(ch)
      response == escapeHandler(a.escSequence)
      b == IF handler
             THEN [a EXCEPT !.calls = @ \o <<a.escSequence>>,
                            !.replies = IF response # <<>>
                                          THEN @ \o <<response>> ELSE @]
             ELSE a
  IN IF gotEscape
       THEN IF strip THEN b ELSE [b EXCEPT !.result = @ \o b.escSequence]
       ELSE a

RECURSIVE peacLoop(_, _, _, _)
peacLoop(st, s, strip, handler) ==
  IF s = <<>> THEN st
  ELSE peacLoop(peacStep(st, Head(s), strip, handler), Tail(s), strip, handler)

\* processEscapesAndControls: the text returned, the sequences handed to the
\* escape handler and the replies written to the transport, in order.
processEscapesAndControls(s, strip, handler) ==
  LET st == peacLoop(peacInit, s, strip, handler)
  IN [result |-> st.result, calls |-> st.calls, replies |-> st.replies]

\* buffer.indexOf('\n'), -1 when absent.
RECURSIVE indexOfLF(_, _)
indexOfLF(s, i) ==
  IF i >= Len(s) THEN -1
  ELSE IF s[i + 1] = LF THEN i
  ELSE indexOfLF(s, i + 1)

\* The items the 'data' handler emits for `buffer` (the old buffer with the
\* chunk's text appended): every segment up to and including a line feed,
\* then the unterminated remainder when it is not empty.
RECURSIVE emittedLinesNoFlush(_)
emittedLinesNoFlush(buf) ==
  LET pos == indexOfLF(buf, 0) IN
  IF pos >= 0
    THEN <<SubSeq(buf, 1, pos + 1)>> \o emittedLinesNoFlush(sliceFrom(buf, pos + 1))
  ELSE <<>>
RECURSIVE emittedLines(_)
emittedLines(buf) ==
  LET pos == indexOfLF(buf, 0) IN
  IF pos >= 0
    THEN <<SubSeq(buf, 1, pos + 1)>> \o emittedLines(sliceFrom(buf, pos + 1))
  ELSE IF buf # <<>> THEN <<buf>>
  ELSE <<>>

\* The filtered text of a telnet 'data' payload.
filtered(data, strip, handler) ==
  processEscapesAndControls(normalize(toString(data)), strip, handler)

----------------------------------------------------------------------------
(* Prompt matching (src/src/telnet-sequence.ts 277-280).                   *)
(* A prompt is [kind |-> "null"], [kind |-> "str", s |-> text] or          *)
(* [kind |-> "re", pre |-> text, post |-> text, icase |-> BOOLEAN], the    *)
(* last standing for the pattern /pre.*post/ with or without the i flag.   *)

lower(ch) == IF ch >= 65 /\ ch <= 90 THEN ch + 32 ELSE ch

matchesAt(ln, i, lit, icase) ==
  /\ i + Len(lit) <= Len(ln)
  /\ \A k \in 1..Len(lit) :
       IF icase THEN lower(ln[i + k]) = lower(lit[k]) ELSE ln[i + k] = lit[k]

\* String.prototype.endsWith
endsWith(ln, s) == Len(s) <= Len(ln) /\ matchesAt(ln, Len(ln) - Len(s), s, FALSE)

\* RegExp.prototype.test for /pre.*post/: unanchored, `.` matches anything
\* but a line terminator.
regExpTest(p, ln) ==
  \E i \in 0..Len(ln) : \E j \in 0..Len(ln) :
    /\ matchesAt(ln, i, p.pre, p.icase)
    /\ j >= i + Len(p.pre)
    /\ matchesAt(ln, j, p.post, p.icase)
    /\ \A k \in (i + Len(p.pre) + 1)..j : ln[k] \notin {LF, CR}

\* this.steps[this.step]?.prompt tested against the line.
promptMatchesStr(sc, st, ln) ==
  /\ st < Len(sc)
  /\ sc[st + 1].prompt.kind = "str" /\ endsWith(ln, sc[st + 1].prompt.s)
promptMatches(sc, st, ln) ==
  /\ st < Len(sc)
  /\ \/ sc[st + 1].prompt.kind = "str" /\ endsWith(ln, sc[st + 1].prompt.s)
     \/ sc[st + 1].prompt.kind = "re" /\ regExpTest(sc[st + 1].prompt, ln)

----------------------------------------------------------------------------
(* Bounds and inputs of the session model.                                 *)

MaxChunks == 2            \* socket 'data' events per run
MaxSessionTimeout == 3    \* opts.sessionTimeout ranges over 1..MaxSessionTimeout
SendTimeout == 2          \* defaultOptions.sendTimeout, 2000 ms
Timeout == 2              \* defaultOptions.timeout, 2000 ms

ORS == <<LF>>             \* defaultOptions.ors

TextLogin    == <<108, 111, 103, 105, 110, 58, 32>>               \* "login: "
TextPassword == <<112, 97, 115, 115, 119, 111, 114, 100, 58, 32>> \* "password: "
TextOk       == <<ESC, 91, 54, 110, 111, 107, LF>>                \* "\x1B[6nok\n"
TextRoot     == <<114, 111, 111, 116>>                            \* "root"
TextGuest    == <<103, 117, 101, 115, 116>>                       \* "guest"
TextX        == <<120>>                                           \* "x"

\* [{prompt: 'login: ', response: 'root'}, {prompt: /pass.*: /i, response: 'guest'}]
ScriptLogin ==
  << [prompt |-> [kind |-> "str", s |-> TextLogin], response |-> TextRoot],
     [prompt |-> [kind |-> "re", pre |-> <<112, 97, 115, 115>>,
                  post |-> <<58, 32>>, icase |-> TRUE],
      response |-> TextGuest] >>

\* [{prompt: null, response: 'x'}, {prompt: 'login: ', response: 'root'}]
ScriptLead ==
  << [prompt |-> [kind |-> "null"], response |-> TextX],
     [prompt |-> [kind |-> "str", s |-> TextLogin], response |-> TextRoot] >>

Scripts == {ScriptLogin, ScriptLead}

\* The chunks the remote side may send: two prompts, a cursor-position query
\* followed by a complete line, and a negotiation request.
Chunks == {TextLogin, TextPassword, TextOk, <<IAC, 253, 24>>}

\* (escapeHandler given, stripControls)
FilterOptions == {<<FALSE, FALSE>>, <<TRUE, TRUE>>}

NoItem    == [kind |-> "none"]
NullItem  == [kind |-> "null"]
LineItem(t)  == [kind |-> "line", text |-> t]
ErrorItem(m) == [kind |-> "error", msg |-> m]
NoFailure == [err |-> "none", idle |-> 0]

ErrSessionTimeout == "telnet session timeout"
ErrTimeout        == "telnet timeout"
ErrSocket         == "socket error"
ErrNotAnError     == "function toString() { [native code] }"

----------------------------------------------------------------------------
(* State shared by the actions.                                            *)

\* A continuation of the loop is queued as a microtask: it runs before the
\* event loop delivers the next socket event or timer.
Runnable ==
  \/ pc \in {"loopTop", "gotLine"}
  \/ pc = "awaitConnect" /\ promise.state # "pending"

\* connect has succeeded, process() has not settled and its loop is alive.
InSession ==
  /\ pc \in {"leadSend", "awaitGet", "awaitSend"}
  /\ outcome = "pending"

\* socket.writable
Writable == sock = "open"

\* Any read or write on the socket restarts its idle timer; the callback given
\* to socket.setTimeout is a one-time listener, so once it has run the timer
\* has no further effect.
refreshed(t) == IF t = Off THEN Off ELSE Timeout

\* Emitter.emit applied to each of `items` in turn: the first one goes to the
\* waiting consumer, if there is one, the others are buffered.
Woken(items) == waiting /\ items # <<>>
Emit(items) ==
  /\ waiting' = IF Woken(items) THEN FALSE ELSE waiting
  /\ line'    = IF Woken(items) THEN Head(items) ELSE line
  /\ pc'      = IF Woken(items) THEN "gotLine" ELSE pc
  /\ pending' = IF Woken(items) THEN pending \o Tail(items) ELSE pending \o items

\* The wrapped resolve/reject of QueryablePromise, called once construction is
\* over: the promise settles if it was pending and the flags are set in any case.
Resolve ==
  /\ promise' = IF promise.state = "pending"
                  THEN [state |-> "resolved", reason |-> "none"] ELSE promise
  /\ isResolved' = TRUE
  /\ isSettled' = TRUE
  /\ UNCHANGED isRejected
Reject(reason) ==
  /\ promise' = IF promise.state = "pending"
                  THEN [state |-> "rejected", reason |-> reason] ELSE promise
  /\ isRejected' = TRUE
  /\ isSettled' = TRUE
  /\ UNCHANGED isResolved

\* The first failure event of the session, for the record.
noteFailure(err) ==
  IF InSession /\ failure = NoFailure
    THEN [err |-> err, idle |-> sinceChunk] ELSE failure

\* The sendHandler of every write in flight sees the chunk.
RECURSIVE heard(_)
heard(ws) ==
  IF ws = <<>> THEN <<>>
  ELSE <<[Head(ws) EXCEPT !.got = TRUE]>> \o heard(Tail(ws))

RECURSIVE newWrites(_, _)
newWrites(owner, n) ==
  IF n = 0 THEN <<>>
  ELSE <<[owner |-> owner, got |-> FALSE, left |-> SendTimeout]>>
         \o newWrites(owner, n - 1)

RECURSIVE tagged(_, _)
tagged(by, payloads) ==
  IF payloads = <<>> THEN <<>>
  ELSE <<[by |-> by, data |-> Head(payloads)]>> \o tagged(by, Tail(payloads))

RECURSIVE lineItems(_)
lineItems(ls) ==
  IF ls = <<>> THEN <<>> ELSE <<LineItem(Head(ls))>> \o lineItems(Tail(ls))

----------------------------------------------------------------------------
(* Init: a TelnetSequence has been constructed, process() not yet called.  *)

Idle ==
  /\ step = 0 /\ line = NoItem
  /\ connected = FALSE /\ sessionTimer = Off /\ buffer = <<>>
  /\ pending = <<>> /\ waiting = FALSE
  /\ outcome = "pending" /\ rejectErr = "none"
  /\ sockTimer = Off
  /\ promise = [state |-> "none", reason |-> "none"]
  /\ isResolved = FALSE /\ isRejected = FALSE /\ isSettled = FALSE
  /\ written = <<>> /\ writes = <<>>
  /\ sends = <<>> /\ delivered = <<>> /\ escapes = <<>>
  /\ sinceChunk = 0 /\ failure = NoFailure /\ ended = FALSE /\ stopped = FALSE

Init ==
  /\ Idle
  /\ pc = "new"
  /\ sock = "none"
  /\ steps \in Scripts
  /\ \E o \in FilterOptions : hasHandler = o[1] /\ stripControls = o[2]
  /\ sessionTimeout \in 1..MaxSessionTimeout
  /\ extSock \in {"none", "invalid", "valid"}
  /\ chunksLeft = MaxChunks
  /\ chunk = <<>> /\ fnOut = <<>> /\ fnPc = "off"

----------------------------------------------------------------------------
(* TelnetSequence.process up to its first await, with Telnet.connect       *)
(* (telnet-sequence.ts 190-256, telnet.ts 81-157).                         *)

\* Whether the executor of connect got as far as socket.setTimeout and the
\* socket.on calls (telnet.ts 113-156).  With a valid external socket it does
\* not: resolve() is called while the QueryablePromise is still being
\* constructed, the wrapper settles the promise and then touches `this`
\* before super() has returned, and the exception leaves the executor.
handlersInstalled == extSock # "valid"

\* process() registers its handlers on the new Telnet and calls connect.  An
\* invalid external socket rejects at once: `return reject(...)` leaves the
\* executor before any socket handler is installed, and a settlement made
\* while the promise is still being constructed sets no flag.  A valid one
\* is adopted and the promise resolved, on the same terms.
Process ==
  /\ pc = "new"
  /\ pc' = "awaitConnect"
  /\ IF extSock = "invalid"
       THEN /\ promise' = [state |-> "rejected", reason |-> "socket invalid"]
            /\ UNCHANGED <<sock, sockTimer>>
     ELSE IF extSock = "valid"
       THEN /\ promise' = [state |-> "resolved", reason |-> "none"]
            /\ sock' = "open"
            /\ UNCHANGED sockTimer
       ELSE /\ promise' = [state |-> "pending", reason |-> "none"]
            /\ sock' = "open"
            /\ sockTimer' = Timeout
  /\ UNCHANGED <<steps, hasHandler, stripControls, sessionTimeout, step, line,
                 connected, sessionTimer, buffer, pending, waiting, outcome,
                 rejectErr, extSock, isResolved, isRejected, isSettled, written,
                 writes, logVars, fnVars>>

\* `await telnet.connect(this.opts)` throws: process() rejects.
ConnectFailed ==
  /\ pc = "awaitConnect"
  /\ promise.state = "rejected"
  /\ outcome' = "rejected"
  /\ rejectErr' = promise.reason
  /\ pc' = "done"
  /\ UNCHANGED <<steps, hasHandler, stripControls, sessionTimeout, step, line,
                 connected, sessionTimer, buffer, pending, waiting, telnetVars,
                 logVars, fnVars>>

\* telnet.send(response) called by the loop: Telnet.send appends the record
\* separator, Telnet.write registers a sendHandler and writes, or rejects
\* when the socket is not writable, which ends the loop's async function
\* with nobody to catch it.
Send(response, okPc) ==
  /\ sends' = sends \o <<response>>
  /\ IF Writable
       THEN /\ writes' = writes \o newWrites("loop", 1)
            /\ written' = written \o tagged("send", <<response \o ORS>>)
            /\ sockTimer' = refreshed(sockTimer)
            /\ pc' = okPc
       ELSE /\ pc' = "thrown"
            /\ UNCHANGED <<writes, written, sockTimer>>

\* The continuation of `await telnet.connect`: connected = true, the session
\* timer is armed, and the loop's async function runs to its first await.
ConnectedNoLead ==
  /\ pc = "awaitConnect"
  /\ promise.state = "resolved"
  /\ connected' = TRUE
  /\ sessionTimer' = sessionTimeout
  /\ sinceChunk' = 0
  /\ pc' = "loopTop"
  /\ UNCHANGED <<sends, writes, written, sockTimer>>
  /\ UNCHANGED <<steps, hasHandler, stripControls, sessionTimeout, step, line,
                 buffer, pending, waiting, outcome, rejectErr, extSock, sock,
                 promise, isResolved, isRejected, isSettled, delivered, escapes,
                 chunksLeft, failure, ended, stopped, fnVars>>
Connected ==
  /\ pc = "awaitConnect"
  /\ promise.state = "resolved"
  /\ connected' = TRUE
  /\ sessionTimer' = sessionTimeout
  /\ sinceChunk' = 0
  /\ IF Len(steps) > 0 /\ steps[1].prompt.kind = "null"
       THEN Send(steps[1].response, "leadSend")
       ELSE /\ pc' = "loopTop"
            /\ UNCHANGED <<sends, writes, written, sockTimer>>
  /\ UNCHANGED <<steps, hasHandler, stripControls, sessionTimeout, step, line,
                 buffer, pending, waiting, outcome, rejectErr, extSock, sock,
                 promise, isResolved, isRejected, isSettled, delivered, escapes,
                 chunksLeft, failure, ended, stopped, fnVars>>

----------------------------------------------------------------------------
(* The automaton loop (telnet-sequence.ts 269-287).                        *)

\* checkSessionTimeout(false); resolve()
ExitLoopUnsettled ==
  /\ sessionTimer' = Off
  /\ outcome' = outcome
  /\ pc' = "done"
ExitLoop ==
  /\ sessionTimer' = Off
  /\ outcome' = IF outcome = "pending" THEN "resolved" ELSE outcome
  /\ pc' = "done"

\* Emitter.get: the oldest buffered value if there is one, else the caller
\* waits for the next emit.
GetNewest ==
  IF pending # <<>>
    THEN /\ line' = pending[Len(pending)]
         /\ pending' = SubSeq(pending, 1, Len(pending) - 1)
         /\ pc' = "gotLine"
         /\ UNCHANGED waiting
    ELSE /\ waiting' = TRUE
         /\ pc' = "awaitGet"
         /\ UNCHANGED <<line, pending>>
Get ==
  IF pending # <<>>
    THEN /\ line' = Head(pending)
         /\ pending' = Tail(pending)
         /\ pc' = "gotLine"
         /\ UNCHANGED waiting
    ELSE /\ waiting' = TRUE
         /\ pc' = "awaitGet"
         /\ UNCHANGED <<line, pending>>

\* while (connected && (line = await lineSource.get()) !== null)
LoopTop ==
  /\ pc = "loopTop"
  /\ IF ~connected
       THEN /\ ExitLoop
            /\ UNCHANGED <<line, pending, waiting>>
       ELSE /\ Get
            /\ UNCHANGED <<sessionTimer, outcome>>
  /\ UNCHANGED <<steps, hasHandler, stripControls, sessionTimeout, step,
                 connected, buffer, rejectErr, telnetVars, logVars, fnVars>>

\* The cursor after a match: this.steps[this.step++]
advancedNot(st) == st
advanced(st) == st + 1

\* The body of the loop for the value get() resolved with.
GotLine ==
  /\ pc = "gotLine"
  /\ IF line.kind = "null"
       THEN /\ ExitLoop
            /\ UNCHANGED <<step, rejectErr, sends, writes, written, sockTimer,
                           delivered, stopped>>
     ELSE IF line.kind = "error"
       THEN /\ outcome' = IF outcome = "pending" THEN "rejected" ELSE outcome
            /\ rejectErr' = IF outcome = "pending" THEN line.msg ELSE rejectErr
            /\ sessionTimer' = Off
            /\ pc' = "done"
            /\ UNCHANGED <<step, sends, writes, written, sockTimer, delivered,
                           stopped>>
     ELSE IF promptMatches(steps, step, line.text)
       THEN /\ step' = advanced(step)
            /\ Send(steps[step + 1].response, "awaitSend")
            /\ UNCHANGED <<sessionTimer, outcome, rejectErr, delivered, stopped>>
     ELSE \E stop \in BOOLEAN :
            /\ delivered' = delivered \o <<line.text>>
            /\ stopped' = (stopped \/ stop)
            /\ IF stop THEN ExitLoop
                       ELSE pc' = "loopTop" /\ UNCHANGED <<sessionTimer, outcome>>
            /\ UNCHANGED <<step, rejectErr, sends, writes, written, sockTimer>>
  /\ UNCHANGED <<steps, hasHandler, stripControls, sessionTimeout, line,
                 connected, buffer, pending, waiting, extSock, sock, promise,
                 isResolved, isRejected, isSettled, escapes, chunksLeft,
                 sinceChunk, failure, ended, fnVars>>

----------------------------------------------------------------------------
(* Socket events and timers (telnet.ts 113-156 and 175-198,                *)
(* telnet-sequence.ts 197-254).                                            *)

\* What the TelnetSequence 'data' handler does with a payload: the filter,
\* the items emitted and the replies the escape handler asked for.
onData(data) ==
  LET f == filtered(data, stripControls, hasHandler)
  IN [items   |-> lineItems(emittedLines(buffer \o f.result)),
      calls   |-> f.calls,
      replies |-> IF Writable THEN f.replies ELSE <<>>]

\* The TelnetSequence 'data' handler (but for the writes its escape replies
\* cause, which the caller adds to the socket's).
TelnetData(data) ==
  /\ Emit(onData(data).items)
  /\ buffer' = <<>>
  /\ sessionTimer' = sessionTimeout
  /\ sinceChunk' = 0
  /\ escapes' = escapes \o onData(data).calls

\* A socket 'data' event.  The connect handler runs first: parseData answers
\* negotiation, a payload settles the connect promise and is re-emitted as a
\* telnet 'data' event, whose handler filters it, emits its lines, empties
\* the buffer and rearms the session timer.  Then the sendHandlers that were
\* registered before this event see the raw chunk.  On an adopted socket the
\* sendHandlers are the only listeners.
SocketData(c) ==
  /\ pc # "new"
  /\ ~Runnable
  /\ sock = "open"
  /\ chunksLeft > 0
  /\ chunksLeft' = chunksLeft - 1
  /\ sockTimer' = refreshed(sockTimer)
  /\ LET r == parseData(c, Writable) IN
     IF ~handlersInstalled
       THEN /\ writes' = heard(writes)
            /\ UNCHANGED <<written, promise, isResolved, isRejected, isSettled,
                           waiting, line, pc, pending, buffer, sessionTimer,
                           sinceChunk, escapes>>
     ELSE IF r.cmdData = Null
       THEN /\ written' = written \o tagged("negotiate", r.wrote)
            /\ writes' = heard(writes)
            /\ UNCHANGED <<promise, isResolved, isRejected, isSettled, waiting,
                           line, pc, pending, buffer, sessionTimer, sinceChunk,
                           escapes>>
       ELSE LET d == onData(r.cmdData) IN
            /\ IF ~isSettled THEN Resolve
                 ELSE UNCHANGED <<promise, isResolved, isRejected, isSettled>>
            /\ TelnetData(r.cmdData)
            /\ written' = written \o tagged("negotiate", r.wrote)
                                  \o tagged("escape", d.replies)
            /\ writes' = heard(writes) \o newWrites("esc", Len(d.replies))
  /\ UNCHANGED <<steps, hasHandler, stripControls, sessionTimeout, step,
                 connected, outcome, rejectErr, extSock, sock, sends, delivered,
                 failure, ended, stopped, fnVars>>

\* The socket 'end' event: the telnet 'end' event first, then the connect
\* promise is rejected if it has not settled.
End ==
  /\ pc # "new"
  /\ ~Runnable
  /\ sock = "open"
  /\ sock' = "ended"
  /\ IF handlersInstalled
       THEN /\ connected' = FALSE
            /\ Emit(<<NullItem>>)
            /\ IF ~isSettled THEN Reject("Socket ends")
                 ELSE UNCHANGED <<promise, isResolved, isRejected, isSettled>>
       ELSE UNCHANGED <<connected, waiting, line, pc, pending, promise,
                        isResolved, isRejected, isSettled>>
  /\ ended' = (ended \/ InSession)
  /\ UNCHANGED <<steps, hasHandler, stripControls, sessionTimeout, step,
                 sessionTimer, buffer, outcome, rejectErr, extSock, sockTimer,
                 written, writes, sends, delivered, escapes, chunksLeft,
                 sinceChunk, failure, stopped, fnVars>>

\* The socket 'close' event, which also follows an error or a destroy.
Close ==
  /\ pc # "new"
  /\ ~Runnable
  /\ sock \in {"open", "ended", "errored", "destroyed"}
  /\ sock' = "closed"
  /\ sockTimer' = Off
  /\ IF handlersInstalled
       THEN /\ connected' = FALSE
            /\ Emit(<<NullItem>>)
            /\ IF ~isSettled THEN Reject("Socket closes")
                 ELSE UNCHANGED <<promise, isResolved, isRejected, isSettled>>
       ELSE UNCHANGED <<connected, waiting, line, pc, pending, promise,
                        isResolved, isRejected, isSettled>>
  /\ ended' = (ended \/ InSession)
  /\ UNCHANGED <<steps, hasHandler, stripControls, sessionTimeout, step,
                 sessionTimer, buffer, outcome, rejectErr, extSock, written,
                 writes, sends, delivered, escapes, chunksLeft, sinceChunk,
                 failure, stopped, fnVars>>

\* The socket 'error' event: TelnetSequence listens for 'error', so it is
\* re-emitted, then the connect promise is rejected if it has not settled.
\* (An adopted socket has no 'error' listener: there the event is an
\* uncaught exception of the host process, which is not a step of this one.)
Error ==
  /\ pc # "new"
  /\ ~Runnable
  /\ handlersInstalled
  /\ sock \in {"open", "ended"}
  /\ sock' = "errored"
  /\ sockTimer' = Off
  /\ connected' = FALSE
  /\ Emit(<<ErrorItem(ErrSocket)>>)
  /\ IF ~isSettled THEN Reject(ErrSocket)
       ELSE UNCHANGED <<promise, isResolved, isRejected, isSettled>>
  /\ failure' = noteFailure(ErrSocket)
  /\ UNCHANGED <<steps, hasHandler, stripControls, sessionTimeout, step,
                 sessionTimer, buffer, outcome, rejectErr, extSock, written,
                 writes, sends, delivered, escapes, chunksLeft, sinceChunk,
                 ended, stopped, fnVars>>

\* The callback given to socket.setTimeout.  Before the connect promise has
\* settled it reports 'Cannot connect' (a string, which the 'error' handler
\* of TelnetSequence wraps), destroys the socket and rejects; afterwards it
\* emits 'timeout' and calls reject all the same.
SocketTimeoutDestroys ==
  /\ ~Runnable
  /\ sockTimer = 0
  /\ sockTimer' = Off
  /\ connected' = FALSE
  /\ IF ~isSettled
       THEN /\ Emit(<<ErrorItem(ErrNotAnError)>>)
            /\ sock' = "destroyed"
            /\ Reject("Cannot connect")
            /\ failure' = noteFailure(ErrNotAnError)
       ELSE /\ Emit(<<ErrorItem(ErrTimeout)>>)
            /\ Reject("Timeout")
            /\ failure' = noteFailure(ErrTimeout)
            /\ sock' = "destroyed"
  /\ UNCHANGED <<steps, hasHandler, stripControls, sessionTimeout, step,
                 sessionTimer, buffer, outcome, rejectErr, extSock, written,
                 writes, sends, delivered, escapes, chunksLeft, sinceChunk,
                 ended, stopped, fnVars>>
SocketTimeout ==
  /\ ~Runnable
  /\ sockTimer = 0
  /\ sockTimer' = Off
  /\ connected' = FALSE
  /\ IF ~isSettled
       THEN /\ Emit(<<ErrorItem(ErrNotAnError)>>)
            /\ sock' = "destroyed"
            /\ Reject("Cannot connect")
            /\ failure' = noteFailure(ErrNotAnError)
       ELSE /\ Emit(<<ErrorItem(ErrTimeout)>>)
            /\ Reject("Timeout")
            /\ failure' = noteFailure(ErrTimeout)
            /\ UNCHANGED sock
  /\ UNCHANGED <<steps, hasHandler, stripControls, sessionTimeout, step,
                 sessionTimer, buffer, outcome, rejectErr, extSock, written,
                 writes, sends, delivered, escapes, chunksLeft, sinceChunk,
                 ended, stopped, fnVars>>

\* The callback of the session timer (checkSessionTimeout).
SessionTimeout ==
  /\ ~Runnable
  /\ sessionTimer = 0
  /\ sessionTimer' = Off
  /\ connected' = FALSE
  /\ Emit(<<ErrorItem(ErrSessionTimeout)>>)
  /\ failure' = noteFailure(ErrSessionTimeout)
  /\ UNCHANGED <<steps, hasHandler, stripControls, sessionTimeout, step, buffer,
                 outcome, rejectErr, telnetVars, sends, delivered, escapes,
                 chunksLeft, sinceChunk, ended, stopped, fnVars>>

without(ws, k) == SubSeq(ws, 1, k - 1) \o SubSeq(ws, k + 1, Len(ws))

\* The timer Telnet.write starts once the data is written: the sendHandler is
\* removed and the write resolves if any response was heard, else it rejects.
\* A write made for an escape reply is awaited by nobody.  The loop resumes
\* after its send resolved (the leading send then advances the cursor) and
\* dies with the rejection otherwise.
SendTimer(k) ==
  /\ ~Runnable
  /\ writes[k].left = 0
  /\ writes' = without(writes, k)
  /\ IF writes[k].owner = "loop"
       THEN IF writes[k].got
              THEN /\ step' = IF pc = "leadSend" THEN step + 1 ELSE step
                   /\ pc' = "loopTop"
              ELSE /\ pc' = "thrown"
                   /\ UNCHANGED step
       ELSE UNCHANGED <<step, pc>>
  /\ UNCHANGED <<steps, hasHandler, stripControls, sessionTimeout, line,
                 connected, sessionTimer, buffer, pending, waiting, outcome,
                 rejectErr, extSock, sock, sockTimer, promise, isResolved,
                 isRejected, isSettled, written, logVars, fnVars>>

RECURSIVE aged(_)
aged(ws) ==
  IF ws = <<>> THEN <<>>
  ELSE <<[Head(ws) EXCEPT !.left = @ - 1]>> \o aged(Tail(ws))

\* One second passes: allowed when no armed timer is due.
Tick ==
  /\ ~Runnable
  /\ sessionTimer # 0 /\ sockTimer # 0
  /\ \A k \in 1..Len(writes) : writes[k].left # 0
  /\ sessionTimer # Off \/ sockTimer # Off \/ writes # <<>>
  /\ sessionTimer' = IF sessionTimer = Off THEN Off ELSE sessionTimer - 1
  /\ sockTimer' = IF sockTimer = Off THEN Off ELSE sockTimer - 1
  /\ writes' = aged(writes)
  /\ sinceChunk' = IF InSession THEN Min(sinceChunk + 1, MaxSessionTimeout)
                                ELSE sinceChunk
  /\ UNCHANGED <<steps, hasHandler, stripControls, sessionTimeout, step, pc,
                 line, connected, buffer, pending, waiting, outcome, rejectErr,
                 extSock, sock, promise, isResolved, isRejected, isSettled,
                 written, sends, delivered, escapes, chunksLeft, failure, ended,
                 stopped, fnVars>>

Next ==
  \/ Process
  \/ ConnectFailed
  \/ Connected
  \/ LoopTop
  \/ GotLine
  \/ \E c \in Chunks : SocketData(c)
  \/ End
  \/ Close
  \/ Error
  \/ SocketTimeout
  \/ SessionTimeout
  \/ \E k \in 1..Len(writes) : SendTimer(k)
  \/ Tick

Spec == Init /\ [][Next]_vars

----------------------------------------------------------------------------
(* Telnet.parseData on its own: every chunk of up to MaxNegLen bytes that  *)
(* starts with the introducer, and every single request triplet.           *)

MaxNegLen == 6
NegBytes == {5, 24, 31, 65, 251, 253, IAC}

NegChunks ==
  {c \in UNION {[1..n -> NegBytes] : n \in 1..MaxNegLen} : c[1] = IAC}
    \cup {<<IAC, cmd, opt>> : cmd \in {251, 253}, opt \in 0..255}

HarnessIdle ==
  /\ Idle
  /\ steps = ScriptLogin
  /\ sessionTimeout = 1
  /\ extSock = "none"
  /\ chunksLeft = 0

InitNeg ==
  /\ HarnessIdle
  /\ pc = "parseData"
  /\ hasHandler = FALSE /\ stripControls = FALSE
  /\ sock \in {"open", "closed"}
  /\ chunk \in NegChunks
  /\ fnOut = [cmdData |-> Null, wrote |-> <<>>]
  /\ fnPc = "in"

ParseData ==
  /\ pc = "parseData"
  /\ fnPc = "in"
  /\ fnOut' = parseData(chunk, Writable)
  /\ fnPc' = "out"
  /\ UNCHANGED <<sessionVars, telnetVars, logVars, chunk>>

NextNeg == ParseData

SpecNeg == InitNeg /\ [][NextNeg]_vars

----------------------------------------------------------------------------
(* The TelnetSequence 'data' handler on its own: a text of up to           *)
(* MaxTextLen characters cut into consecutive chunks in every way.         *)

MaxTextLen == 4
TextChars == {97, LF, CR}

RECURSIVE flatten(_)
flatten(ss) == IF ss = <<>> THEN <<>> ELSE Head(ss) \o flatten(Tail(ss))

\* Every way of cutting t into consecutive non-empty chunks.
RECURSIVE cuttings(_)
cuttings(t) ==
  IF t = <<>> THEN {<<>>}
  ELSE UNION {{<<SubSeq(t, 1, n)>> \o rest : rest \in cuttings(sliceFrom(t, n))}
                : n \in 1..Len(t)}

LineTexts ==
  UNION {[1..n -> TextChars] : n \in 1..MaxTextLen}
    \cup {<<97, 98, 99, LF, 100>>}                     \* "abc\nd"

InitLines ==
  /\ HarnessIdle
  /\ pc = "data"
  /\ sock = "none"
  /\ \E o \in FilterOptions : hasHandler = o[1] /\ stripControls = o[2]
  /\ \E t \in LineTexts : chunk \in cuttings(t)
  /\ fnOut = <<>>
  /\ fnPc = "lines"

\* One telnet 'data' event carrying the next chunk; fnOut keeps what was fed.
FeedData ==
  /\ pc = "data"
  /\ fnPc = "lines"
  /\ chunk # <<>>
  /\ TelnetData(Head(chunk))
  /\ chunk' = Tail(chunk)
  /\ fnOut' = fnOut \o <<Head(chunk)>>
  /\ UNCHANGED <<steps, hasHandler, stripControls, sessionTimeout, step,
                 connected, outcome, rejectErr, telnetVars, sends, delivered,
                 chunksLeft, failure, ended, stopped, fnPc>>

NextLines == FeedData

SpecLines == InitLines /\ [][NextLines]_vars

----------------------------------------------------------------------------
(* The Emitter on its own: up to MaxEmits values emitted while one         *)
(* consumer calls get() and takes what it resolves with, one get at a time.*)

MaxEmits == 4
EmitValues == {LineItem(<<97>>), LineItem(<<98>>), NullItem, ErrorItem(ErrSocket)}

InitEmitter ==
  /\ HarnessIdle
  /\ pc = "idle"
  /\ sock = "none"
  /\ hasHandler = FALSE /\ stripControls = FALSE
  /\ chunk = <<>>
  /\ fnOut = [emitted |-> <<>>, received |-> <<>>]
  /\ fnPc = "queue"

\* lineSource.emit(v), at any moment.
EmitterEmit(v) ==
  /\ fnPc = "queue"
  /\ Len(fnOut.emitted) < MaxEmits
  /\ Emit(<<v>>)
  /\ fnOut' = [fnOut EXCEPT !.emitted = @ \o <<v>>]
  /\ UNCHANGED <<steps, hasHandler, stripControls, sessionTimeout, step,
                 connected, sessionTimer, buffer, outcome, rejectErr,
                 telnetVars, logVars, chunk, fnPc>>

\* The consumer calls lineSource.get() while no get is outstanding.
EmitterGet ==
  /\ fnPc = "queue"
  /\ pc = "idle"
  /\ Get
  /\ UNCHANGED <<steps, hasHandler, stripControls, sessionTimeout, step,
                 connected, sessionTimer, buffer, outcome, rejectErr,
                 telnetVars, logVars, fnVars>>

\* The consumer resumes with the value its get() resolved with.
EmitterTake ==
  /\ fnPc = "queue"
  /\ pc = "gotLine"
  /\ pc' = "idle"
  /\ fnOut' = [fnOut EXCEPT !.received = @ \o <<line>>]
  /\ UNCHANGED <<steps, hasHandler, stripControls, sessionTimeout, step, line,
                 connected, sessionTimer, buffer, pending, waiting, outcome,
                 rejectErr, telnetVars, logVars, chunk, fnPc>>

NextEmitter ==
  \/ \E v \in EmitValues : EmitterEmit(v)
  \/ EmitterGet
  \/ EmitterTake

SpecEmitter == InitEmitter /\ [][NextEmitter]_vars

----------------------------------------------------------------------------
(* Telnet.write on its own (telnet.ts 160-211): one call on a connected    *)
(* Telnet, with or without a wait-for pattern, then socket data and time.  *)
(* A call is [state, reason, waitFor, listening, response, timer, inbound, *)
(* elapsed]: the promise it returned, this.opts.waitFor, whether its       *)
(* sendHandler is on the socket, what the handler has accumulated, the     *)
(* ticks left on its timer, and for the record the bytes that arrived      *)
(* while it was pending and the ticks since the call.                      *)

ErrNoResponse  == "response not received"
ErrNotWritable == "socket not writable"

NoPattern == [kind |-> "none"]
PatternOk == [kind |-> "re", pre |-> <<111, 107>>, post |-> <<>>, icase |-> FALSE]  \* /ok/

\* undefined, {} and {waitFor: /ok/}
WriteOpts == {[given |-> FALSE, waitFor |-> NoPattern],
              [given |-> TRUE,  waitFor |-> NoPattern],
              [given |-> TRUE,  waitFor |-> PatternOk]}

\* "o", "k", "n" and a negotiation request
WriteChunks == {<<111>>, <<107>>, <<110>>, <<IAC, 253, 24>>}

\* The executor of the promise write() returns.
writeCall(opts, writable) ==
  [state     |-> IF writable THEN "pending" ELSE "rejected",
   reason    |-> IF writable THEN "none" ELSE ErrNotWritable,
   waitFor   |-> opts.waitFor,
   listening |-> writable,
   response  |-> <<>>,
   timer     |-> IF writable /\ (opts.waitFor = NoPattern \/ ~opts.given)
                   THEN SendTimeout ELSE Off,
   inbound   |-> <<>>,
   elapsed   |-> 0]

\* sendHandler: on a match it resolves and asks the Telnet, which never had
\* it, to drop the listener, so the socket keeps it.
sendHandler(w, data) ==
  LET response == w.response \o toString(data) IN
  [w EXCEPT !.response = response,
            !.state = IF /\ w.state = "pending"
                         /\ w.waitFor # NoPattern
                         /\ regExpTest(w.waitFor, response)
                        THEN "resolved" ELSE @]

\* The callback of the timer started once the data is written.
writeTimerResolves(w) ==
  [w EXCEPT !.timer = Off, !.listening = FALSE,
            !.state = IF w.state = "pending" THEN "resolved" ELSE @]
writeTimer(w) ==
  [w EXCEPT !.timer = Off, !.listening = FALSE,
            !.state = IF w.state # "pending" THEN @
                      ELSE IF w.response = <<>> THEN "rejected" ELSE "resolved",
            !.reason = IF w.state = "pending" /\ w.response = <<>>
                         THEN ErrNoResponse ELSE @]

InitWrite ==
  /\ Idle
  /\ steps = ScriptLogin
  /\ sessionTimeout = 1
  /\ extSock = "none"
  /\ hasHandler = FALSE /\ stripControls = FALSE
  /\ pc = "write"
  /\ sock \in {"open", "ended"}
  /\ chunksLeft = MaxChunks
  /\ chunk \in WriteOpts
  /\ fnOut = writeCall(chunk, FALSE)
  /\ fnPc = "in"

\* telnet.write(data, opts)
WriteCall ==
  /\ pc = "write"
  /\ fnPc = "in"
  /\ fnPc' = "called"
  /\ fnOut' = writeCall(chunk, Writable)
  /\ written' = IF Writable THEN written \o tagged("write", <<TextX>>) ELSE written
  /\ UNCHANGED <<sessionVars, extSock, sock, sockTimer, promise, isResolved,
                 isRejected, isSettled, writes, logVars, chunk>>

\* A socket 'data' event after the call: the connect handler answers
\* negotiation, then the sendHandler, if it is on the socket, sees the chunk.
WriteData(c) ==
  /\ pc = "write"
  /\ fnPc = "called"
  /\ sock = "open"
  /\ chunksLeft > 0
  /\ chunksLeft' = chunksLeft - 1
  /\ written' = written \o tagged("negotiate", parseData(c, Writable).wrote)
  /\ fnOut' = [(IF fnOut.listening THEN sendHandler(fnOut, c) ELSE fnOut)
                 EXCEPT !.inbound = IF fnOut.state = "pending" THEN @ \o c ELSE @]
  /\ UNCHANGED <<sessionVars, extSock, sock, sockTimer, promise, isResolved,
                 isRejected, isSettled, writes, sends, delivered, escapes,
                 sinceChunk, failure, ended, stopped, chunk, fnPc>>

WriteTimer ==
  /\ pc = "write"
  /\ fnPc = "called"
  /\ fnOut.timer = 0
  /\ fnOut' = writeTimer(fnOut)
  /\ UNCHANGED <<sessionVars, telnetVars, logVars, chunk, fnPc>>

\* One second passes: allowed when the call's timer is not due.
WriteTick ==
  /\ pc = "write"
  /\ fnPc = "called"
  /\ fnOut.timer # 0
  /\ fnOut.elapsed <= SendTimeout
  /\ fnOut' = [fnOut EXCEPT !.elapsed = @ + 1,
                            !.timer = IF @ = Off THEN Off ELSE @ - 1]
  /\ UNCHANGED <<sessionVars, telnetVars, logVars, chunk, fnPc>>

NextWrite ==
  \/ WriteCall
  \/ \E c \in WriteChunks : WriteData(c)
  \/ WriteTimer
  \/ WriteTick

SpecWrite == InitWrite /\ [][NextWrite]_vars

----------------------------------------------------------------------------
(* processEscapesAndControls on its own: every text of up to MaxTextLen    *)
(* characters out of a letter, tab, line feed, bell, ESC and '['.          *)

BEL == 7
FilterChars == {97, TAB, LF, BEL, ESC, 91}

\* Texts with the sequences the escapeHandler of src/src/app.ts answers: a
\* cursor-position query, reverse video next to an unanswered sequence and
\* the query, and a cursor-position report, which ends in a capital letter.
FilterTexts ==
  { TextOk,
    <<97, ESC, 91, 55, 109, ESC, 97, ESC, 91, 54, 110>>,
    <<ESC, 91, 50, 52, 59, 56, 48, 82, 97>> }

InitFilter ==
  /\ HarnessIdle
  /\ pc = "filter"
  /\ sock = "open"
  /\ hasHandler \in BOOLEAN /\ stripControls \in BOOLEAN
  /\ chunk \in UNION {[1..n -> FilterChars] : n \in 1..MaxTextLen} \cup FilterTexts
  /\ fnOut = [result |-> <<>>, calls |-> <<>>, replies |-> <<>>]
  /\ fnPc = "in"

\* this.processEscapesAndControls(s, escapeHandler), with the writes its
\* escape replies make on the transport.
Filter ==
  /\ pc = "filter"
  /\ fnPc = "in"
  /\ fnPc' = "out"
  /\ fnOut' = processEscapesAndControls(chunk, stripControls, hasHandler)
  /\ written' = written \o tagged("escape", fnOut'.replies)
  /\ UNCHANGED <<sessionVars, extSock, sock, sockTimer, promise, isResolved,
                 isRejected, isSettled, writes, logVars, chunk>>

NextFilter == Filter

SpecFilter == InitFilter /\ [][NextFilter]_vars

----------------------------------------------------------------------------
(* A session whose script has a no-op marker in the middle, as the script  *)
(* of src/src/app.ts 80-96 has when the designation is not a DES= one.     *)

\* [{prompt: 'login: ', response: 'root'}, {prompt: null, response: null},
\*  {prompt: /pass.*: /i, response: 'guest'}]
ScriptNoop ==
  << ScriptLogin[1],
     [prompt |-> [kind |-> "null"], response |-> Null],
     ScriptLogin[2] >>

InitNoop ==
  /\ Idle
  /\ pc = "new"
  /\ sock = "none"
  /\ steps = ScriptNoop
  /\ \E o \in FilterOptions : hasHandler = o[1] /\ stripControls = o[2]
  /\ sessionTimeout \in 1..MaxSessionTimeout
  /\ extSock \in {"none", "invalid"}
  /\ chunksLeft = MaxChunks
  /\ chunk = <<>> /\ fnOut = <<>> /\ fnPc = "off"

SpecNoop == InitNoop /\ [][Next]_vars

----------------------------------------------------------------------------
(* Sessions whose script may run out while lines are still arriving.       *)

\* [{prompt: 'login: ', response: 'root'}]
ScriptShort == << ScriptLogin[1] >>

InitShort ==
  /\ Idle
  /\ pc = "new"
  /\ sock = "none"
  /\ steps \in {ScriptShort, ScriptLogin}
  /\ \E o \in FilterOptions : hasHandler = o[1] /\ stripControls = o[2]
  /\ sessionTimeout \in 1..MaxSessionTimeout
  /\ extSock \in {"none", "invalid"}
  /\ chunksLeft = MaxChunks
  /\ chunk = <<>> /\ fnOut = <<>> /\ fnPc = "off"

SpecShort == InitShort /\ [][Next]_vars

----------------------------------------------------------------------------
(* process() called again on the same TelnetSequence once the promise of   *)
(* the previous call has settled.  fnOut keeps the cursor each invocation  *)
(* started with.                                                           *)

MaxRuns == 3

InitAgain ==
  /\ Idle
  /\ pc = "new"
  /\ sock = "none"
  /\ steps \in Scripts
  /\ hasHandler = FALSE /\ stripControls = FALSE
  /\ sessionTimeout = MaxSessionTimeout
  /\ extSock = "none"
  /\ chunksLeft = MaxChunks
  /\ chunk = <<>>
  /\ fnOut = <<0>>
  /\ fnPc = "runs"

\* A further process() call: a new Telnet, Emitter, buffer, connected flag and
\* session timer are created and connect is called on a new socket; this.step
\* is a field of the instance and is left as the last call left it.  The
\* socket of the previous call is taken to be quiet from here on.
ProcessAgain ==
  /\ pc = "done"
  /\ fnPc = "runs"
  /\ Len(fnOut) < MaxRuns
  /\ fnOut' = fnOut \o <<step>>
  /\ pc' = "awaitConnect"
  /\ line' = NoItem
  /\ connected' = FALSE /\ sessionTimer' = Off /\ buffer' = <<>>
  /\ pending' = <<>> /\ waiting' = FALSE
  /\ outcome' = "pending" /\ rejectErr' = "none"
  /\ promise' = [state |-> "pending", reason |-> "none"]
  /\ isResolved' = FALSE /\ isRejected' = FALSE /\ isSettled' = FALSE
  /\ sock' = "open"
  /\ sockTimer' = Timeout
  /\ written' = <<>> /\ writes' = <<>>
  /\ sends' = <<>> /\ delivered' = <<>> /\ escapes' = <<>>
  /\ chunksLeft' = MaxChunks
  /\ sinceChunk' = 0 /\ failure' = NoFailure /\ ended' = FALSE /\ stopped' = FALSE
  /\ UNCHANGED <<steps, hasHandler, stripControls, sessionTimeout, step,
                 extSock, chunk, fnPc>>

NextAgain ==
  \/ Next
  \/ ProcessAgain

SpecAgain == InitAgain /\ [][NextAgain]_vars

----------------------------------------------------------------------------
(* The claims.                                                             *)

\* The loop's async function has ended: it returned or it threw.
LoopOver == pc \in {"done", "thrown"}

RECURSIVE textsOf(_)
textsOf(items) ==
  IF items = <<>> THEN <<>>
  ELSE (IF Head(items).kind = "line" THEN <<Head(items).text>> ELSE <<>>)
         \o textsOf(Tail(items))

RECURSIVE dataOf(_, _)
dataOf(by, ws) ==
  IF ws = <<>> THEN <<>>
  ELSE (IF Head(ws).by = by THEN <<Head(ws).data>> ELSE <<>>)
         \o dataOf(by, Tail(ws))

\* C1: post-connect failures are never swallowed: once a socket error, a
\* socket timeout or a session-timer expiry has occurred in a session,
\* process() never resolves; when it settles it has rejected with that error.
C1_FailureNeverSwallowed ==
  (failure # NoFailure /\ outcome # "pending")
    => (outcome = "rejected" /\ rejectErr = failure.err)

\* C2 (as stated): the completed lines queued for a text do not depend on how
\* the text was cut into chunks, and unterminated text stays in the buffer:
\* once every chunk has been fed, the queue holds what the unsplit text
\* yields, its line-terminated segments, and the buffer holds the rest.
RECURSIVE completeLines(_)
completeLines(t) ==
  LET pos == indexOfLF(t, 0) IN
  IF pos < 0 THEN <<>>
  ELSE <<SubSeq(t, 1, pos + 1)>> \o completeLines(sliceFrom(t, pos + 1))

C2_LinesIndependentOfChunking ==
  (fnPc = "lines" /\ chunk = <<>>)
    => LET whole == normalize(flatten(fnOut))
           lines == completeLines(whole)
       IN /\ textsOf(pending) = lines
          /\ flatten(lines) \o buffer = whole

\* C2 (amended): every chunk is flushed whole.  After each chunk the buffer is
\* empty, every queued item is non-empty and holds no line feed before its
\* last character, the items put end to end are the chunks' normalized and
\* filtered texts put end to end, and "ab" then "c\nd" queues "ab", "c\n", "d".
C2_ChunksFlushedWhole ==
  fnPc = "lines"
    => /\ buffer = <<>>
       /\ \A k \in 1..Len(pending) :
            /\ pending[k].kind = "line"
            /\ pending[k].text # <<>>
            /\ indexOfLF(pending[k].text, 0) \in {-1, Len(pending[k].text) - 1}
       /\ flatten(textsOf(pending))
            = flatten([k \in 1..Len(fnOut) |->
                        filtered(fnOut[k], stripControls, hasHandler).result])
       /\ (fnOut = <<<<97, 98>>, <<99, LF, 100>>>>
             => textsOf(pending) = <<<<97, 98>>, <<99, LF>>, <<100>>>>)

C2_Witness ==
  /\ fnPc = "lines"
  /\ fnOut = <<<<97, 98>>, <<99, LF, 100>>>>
  /\ textsOf(pending) = <<<<97, 98>>, <<99, LF>>, <<100>>>>
  /\ buffer = <<>>

\* C3: process() always terminates: whenever the loop's async function has
\* ended, by returning or by a scripted send that failed, the promise that
\* process() returned is settled.
C3_ProcessSettles == LoopOver => outcome # "pending"

\* C4: scripted replies follow script order: with no null prompt in the
\* script, the sends made are the responses of steps 0..cursor-1 in order, one
\* per step, the cursor is the number of sends, and what reached the socket
\* for them is each response followed by the record separator, in the same
\* order (the last send only if the socket was writable).
C4_SendsFollowScript ==
  (pc \notin {"parseData", "data"} /\ \A k \in 1..Len(steps) : steps[k].prompt.kind # "null")
    => /\ step <= Len(steps)
       /\ Len(sends) = step
       /\ \A k \in 1..step : sends[k] = steps[k].response
       /\ LET sent == dataOf("send", written) IN
          /\ Len(sent) \in {Len(sends), Len(sends) - 1}
          /\ \A k \in 1..Len(sent) : sent[k] = sends[k] \o ORS

C4_Witness ==
  /\ steps = ScriptLogin
  /\ step = 2
  /\ sends = <<TextRoot, TextGuest>>
  /\ dataOf("send", written) = <<TextRoot \o ORS, TextGuest \o ORS>>
  /\ delivered = <<>>

\* C5: the default negotiation reply keeps the option byte: a writable
\* transport answers a lone triplet FF FD opt with FF FC opt and FF FB opt
\* with FF FD opt, for every opt (FD 18 and FD 1F excepted).
C5_DefaultReplyKeepsOption ==
  (/\ fnPc = "out" /\ Writable
   /\ Len(chunk) = 3 /\ chunk[1] = IAC /\ chunk[2] \in {251, 253}
   /\ <<chunk[2], chunk[3]>> \notin {<<253, 24>>, <<253, 31>>})
    => fnOut.wrote = <<<<IAC, IF chunk[2] = 253 THEN 252 ELSE 253, chunk[3]>>>>

\* C6: supported-option replies are bit-exact: for a chunk that is a run of
\* whole triplets on a writable transport, one write is made, it is the
\* per-triplet replies in triplet order, FF FB 18 for FF FD 18, FF FB 1F FF
\* FA 1F 27 0F 27 0F FF F0 for FF FD 1F and three bytes for any other
\* triplet, and no payload is returned.
IsTripletRun(c) ==
  /\ Len(c) >= 3 /\ Len(c) % 3 = 0
  /\ \A i \in 0..(Len(c) - 1) : i % 3 = 0 => c[i + 1] = IAC
  /\ c[2] # IAC

RECURSIVE repliesInOrder(_, _)
repliesInOrder(c, out) ==
  IF c = <<>> THEN out = <<>>
  ELSE LET want == IF SubSeq(c, 1, 3) = <<IAC, 253, 24>>
                     THEN <<<<IAC, 251, 24>>>>
                   ELSE IF SubSeq(c, 1, 3) = <<IAC, 253, 31>>
                     THEN <<<<IAC, 251, 31, IAC, 250, 31, 39, 15, 39, 15, IAC, 240>>>>
                   ELSE <<>>
           n == IF want = <<>> THEN 3 ELSE Len(want[1])
       IN /\ Len(out) >= n
          /\ want # <<>> => SubSeq(out, 1, n) = want[1]
          /\ repliesInOrder(sliceFrom(c, 3), sliceFrom(out, n))

C6_SupportedRepliesExact ==
  (fnPc = "out" /\ Writable /\ IsTripletRun(chunk))
    => /\ fnOut.cmdData = Null
       /\ Len(fnOut.wrote) = 1
       /\ repliesInOrder(chunk, fnOut.wrote[1])

C6_Witness ==
  /\ fnPc = "out" /\ Writable
  /\ chunk = <<IAC, 253, 31, IAC, 253, 24>>
  /\ fnOut.cmdData = Null
  /\ fnOut.wrote = <<<<IAC, 251, 31, IAC, 250, 31, 39, 15, 39, 15, IAC, 240,
                       IAC, 251, 24>>>>

\* C7: negotiation bytes are never surfaced as data: for a chunk that starts
\* with FF and does not go on with FF, the payload returned is the chunk from
\* its first index i, i a multiple of 3, with chunk[i] # FF, unchanged, and
\* null when there is no such index.
C7_PayloadAfterTripletRun ==
  (fnPc = "out" /\ chunk[1] = IAC /\ (Len(chunk) = 1 \/ chunk[2] # IAC))
    => LET breaks == {i \in 0..(Len(chunk) - 1) : i % 3 = 0 /\ chunk[i + 1] # IAC}
       IN IF breaks = {} THEN fnOut.cmdData = Null
          ELSE \E i \in breaks :
                 /\ \A j \in breaks : i <= j
                 /\ fnOut.cmdData = SubSeq(chunk, i + 1, Len(chunk))

C7_Witness ==
  /\ fnPc = "out"
  /\ chunk = <<IAC, 253, 24, 65, IAC>>
  /\ fnOut.cmdData = <<65, IAC>>

\* C8: idle timeout: in a session the timer runs out exactly sessionTimeout
\* after the last inbound chunk (or connect); once it has run out process()
\* does not resolve, it rejects with the session-timeout error; and it never
\* rejects with that error before the whole timeout has gone by.
C8_IdleTimeoutRejects ==
  /\ (InSession /\ sessionTimer # Off)
       => sessionTimer = sessionTimeout - sinceChunk
  /\ (failure.err = ErrSessionTimeout /\ outcome # "pending")
       => (outcome = "rejected" /\ rejectErr = ErrSessionTimeout)
  /\ (outcome = "rejected" /\ rejectErr = ErrSessionTimeout)
       => (failure.err = ErrSessionTimeout /\ failure.idle >= sessionTimeout)

\* C9: stream end is a normal termination: once an 'end' or 'close' event has
\* arrived in a session, the loop ends with process() resolved, never
\* rejected and never left unsettled, wherever the cursor stands.
C9_EndResolves == (ended /\ LoopOver) => outcome = "resolved"

\* C10: consumer stop: once lineReceiver has returned true for an unmatched
\* line, the loop is over and process() has resolved with no error, and from
\* then on no line is matched or delivered and the cursor stays put.
C10_ConsumerStop ==
  /\ [](stopped => (pc = "done" /\ outcome = "resolved" /\ rejectErr = "none"))
  /\ [][stopped => (delivered' = delivered /\ sends' = sends /\ step' = step)]_vars

C10_Witness ==
  /\ stopped
  /\ step < Len(steps)
  /\ outcome = "resolved"
  /\ pending # <<>>

\* C11: the bridge queue is FIFO and lossless for a single consumer: what the
\* consumer has received, then the value its get() has resolved with, then
\* the buffered values, are the emitted values in emission order; a consumer
\* waits exactly while its get() is unresolved, and nothing is buffered then.
C11_QueueFifoLossless ==
  fnPc = "queue"
    => /\ fnOut.received \o (IF pc = "gotLine" THEN <<line>> ELSE <<>>) \o pending
            = fnOut.emitted
       /\ waiting <=> pc = "awaitGet"
       /\ waiting => pending = <<>>

C11_Witness ==
  /\ fnPc = "queue"
  /\ fnOut.emitted = <<LineItem(<<97>>), NullItem, LineItem(<<98>>), LineItem(<<97>>)>>
  /\ fnOut.received = <<LineItem(<<97>>), NullItem, LineItem(<<98>>)>>
  /\ pending = <<LineItem(<<97>>)>>
  /\ pc = "idle"

\* C12: connect-timeout disambiguation: when the callback given to
\* socket.setTimeout runs while the connect promise is pending, connect
\* rejects with 'Cannot connect', the socket is destroyed and no 'timeout'
\* event is emitted; when it runs after the promise has settled, the promise
\* and the socket are left as they are and the 'timeout' event reaches the
\* session as its timeout error.
C12_TimeoutDisambiguated ==
  [][(sockTimer = 0 /\ sockTimer' = Off /\ sock' \notin {"closed", "errored"})
       => IF promise.state = "pending"
            THEN /\ promise' = [state |-> "rejected", reason |-> "Cannot connect"]
                 /\ sock' = "destroyed"
                 /\ pending' = pending \o <<ErrorItem(ErrNotAnError)>>
            ELSE /\ promise' = promise
                 /\ sock' = sock
                 /\ IF waiting
                      THEN line' = ErrorItem(ErrTimeout) /\ pending' = pending
                      ELSE pending' = pending \o <<ErrorItem(ErrTimeout)>>]_vars

C12_Witness ==
  /\ promise.state = "resolved"
  /\ sock = "open"
  /\ sockTimer = Off
  /\ failure.err = ErrTimeout
  /\ rejectErr = ErrTimeout

\* C13: settlement flags are final: isResolved and isRejected are never both
\* true, isSettled is true exactly when one of them is, and the flag that is
\* set agrees with how the connect promise settled.
C13_FlagsFinal ==
  /\ ~(isResolved /\ isRejected)
  /\ isSettled <=> (isResolved \/ isRejected)
  /\ isResolved => promise.state = "resolved"
  /\ isRejected => promise.state = "rejected"

\* C14: a send with a wait-for pattern always settles: it has resolved once
\* the text accumulated since the write matches the pattern, and once the
\* send timeout has gone by it is no longer pending.
C14_WaitForSettles ==
  (fnPc = "called" /\ chunk.waitFor # NoPattern)
    => /\ regExpTest(chunk.waitFor, toString(fnOut.inbound)) => fnOut.state = "resolved"
       /\ fnOut.elapsed > SendTimeout => fnOut.state # "pending"

\* C15: a send without a wait-for pattern: on a socket that is not writable
\* it rejects with the not-writable error and writes nothing; on a writable
\* one it is pending until the send timeout has gone by and settles then,
\* resolved if at least one byte arrived in between and rejected with the
\* no-response error if none did.
C15_SendTimedOut ==
  (fnPc = "called" /\ chunk.waitFor = NoPattern)
    => IF sock # "open"
         THEN /\ fnOut.state = "rejected" /\ fnOut.reason = ErrNotWritable
              /\ written = <<>>
         ELSE /\ dataOf("write", written) = <<TextX>>
              /\ fnOut.elapsed < SendTimeout => fnOut.state = "pending"
              /\ fnOut.elapsed > SendTimeout => fnOut.state # "pending"
              /\ fnOut.state = "resolved" => fnOut.inbound # <<>>
              /\ fnOut.state = "rejected"
                   => (fnOut.inbound = <<>> /\ fnOut.reason = ErrNoResponse)

C15_Witness ==
  /\ fnPc = "called" /\ chunk.waitFor = NoPattern
  /\ sock = "open"
  /\ fnOut.elapsed = SendTimeout
  /\ fnOut.state = "resolved"
  /\ fnOut.inbound = <<IAC, 253, 24>>

\* C16: the filter leaves clean text alone: with stripping enabled, a text
\* with no ESC and no control character but tab and line feed comes back
\* unchanged, the escape handler is not called and nothing is written.
C16_CleanTextUnchanged ==
  (/\ fnPc = "out" /\ pc = "filter" /\ stripControls
   /\ \A i \in 1..Len(chunk) :
        /\ chunk[i] # ESC
        /\ chunk[i] \in {TAB, LF} \/ (chunk[i] >= 32 /\ chunk[i] \notin 127..159))
    => /\ fnOut.result = chunk
       /\ fnOut.calls = <<>>
       /\ fnOut.replies = <<>>
       /\ written = <<>>

C16_Witness ==
  /\ fnPc = "out" /\ pc = "filter"
  /\ stripControls /\ hasHandler
  /\ chunk = <<97, TAB, LF, 91>>
  /\ fnOut.result = chunk
  /\ written = <<>>

\* C17: no-op steps are skipped: once a step has matched and its response has
\* been sent, the step the loop compares the next line with is never a
\* marker whose prompt and response are both null.
C17_NoopStepsSkipped ==
  (/\ pc \in {"loopTop", "awaitGet", "gotLine"}
   /\ step >= 1 /\ step < Len(steps))
    => ~(steps[step + 1].prompt.kind = "null" /\ steps[step + 1].response = Null)

\* C18: events are observed in arrival order: when the loop ends because the
\* session is no longer connected, no line that was queued ahead of the event
\* that ended the session is left in the queue undispatched.
C18_LinesBeforeEndDispatched ==
  [][(pc = "loopTop" /\ pc' = "done" /\ pending # <<>>)
       => Head(pending).kind # "line"]_vars

\* C19: the session timer is cancelled on termination: once the loop has
\* ended the timer is not armed, whatever arrives afterwards.
C19_TimerOffAfterLoop ==
  pc = "done" => sessionTimer = Off

\* C20: the script cursor: it never decreases, it stays within 0..N for a
\* script of N steps, and every invocation of process() starts with a cursor
\* of 0.
C20_CursorInvariant ==
  /\ [](step >= 0 /\ step <= Len(steps))
  /\ [][step' >= step]_vars
  /\ [](fnPc = "runs" => \A k \in 1..Len(fnOut) : fnOut[k] = 0)

\* C21: at most one pending write is active on the transport: at most one
\* sendHandler installed by send/write is on the socket at any time, so an
\* escape reply never overlaps a scripted send that is still in flight.
C21_OneWriteInFlight ==
  Len(writes) <= 1

\* C22: the leading unconditional send: with a null prompt at step 0 the
\* response of step 0 is sent once, after connect and before any item is
\* taken from the queue, and once connect has succeeded the cursor has passed
\* step 0 whenever the loop reads or dispatches; with any other script nothing is sent before
\* connect, and every send made goes with one advance of the cursor.
C22_LeadingSend ==
  (Len(steps) > 0 /\ pc \notin {"parseData", "data", "filter", "write", "idle"})
    => IF steps[1].prompt.kind = "null"
         THEN /\ pc \in {"new", "awaitConnect"} => (sends = <<>> /\ step = 0)
              /\ pc = "leadSend"
                   => /\ sends = <<steps[1].response>> /\ step = 0
                      /\ line = NoItem /\ delivered = <<>>
              /\ (\/ pc \in {"loopTop", "awaitGet", "gotLine", "awaitSend"}
                  \/ pc = "done" /\ promise.state = "resolved")
                   => /\ step >= 1 /\ Len(sends) = step
                      /\ sends[1] = steps[1].response
                      /\ \A k \in 2..Len(sends) : sends[k] = steps[k].response
         ELSE /\ pc \in {"new", "awaitConnect"} => sends = <<>>
              /\ Len(sends) = step
              /\ sends # <<>> => promptMatches(steps, 0, TextLogin)

C22_Witness ==
  /\ steps = ScriptLead
  /\ pc = "gotLine"
  /\ line = LineItem(TextLogin)
  /\ step = 1
  /\ sends = <<TextX>>
  /\ delivered = <<>>

\* C23: line dispatch is a partition: a line the loop takes from the queue
\* either matches the prompt of the current step (a string prompt ends the
\* line, a pattern prompt is found anywhere in it), and then exactly one send
\* is made, the cursor advances and the consumer is not called, or it goes
\* to the consumer exactly once with no send and no cursor change; with the
\* cursor past the last step every line goes to the consumer and the loop
\* does not fail.
C23_Matches ==
  /\ step < Len(steps)
  /\ LET prompt == steps[step + 1].prompt IN
       \/ prompt.kind = "str" /\ endsWith(line.text, prompt.s)
       \/ prompt.kind = "re" /\ regExpTest(prompt, line.text)

C23_LineDispatchPartition ==
  [][(pc = "gotLine" /\ line.kind = "line")
       => IF C23_Matches
            THEN /\ sends' = sends \o <<steps[step + 1].response>>
                 /\ step' = step + 1
                 /\ delivered' = delivered
            ELSE /\ delivered' = delivered \o <<line.text>>
                 /\ sends' = sends
                 /\ step' = step
                 /\ written' = written
                 /\ pc' \in {"loopTop", "done"}
                 /\ outcome' \in {"resolved", outcome}
                 /\ rejectErr' = rejectErr]_vars

C23_Witness ==
  /\ steps = ScriptShort /\ hasHandler
  /\ step = Len(steps)
  /\ sends = <<TextRoot>>
  /\ Len(written) = 2 /\ written[1].by = "send" /\ written[2].by = "escape"
  /\ delivered # <<>>

\* C24: with stripping disabled the filter loses nothing: however a text is
\* cut into two chunks, an escape sequence cut in the middle included, the
\* filtered chunks put together are the text, character for character.
C24_FilterLosesNothing ==
  (fnPc = "out" /\ pc = "filter" /\ ~stripControls)
    => /\ fnOut.result = chunk
       /\ \A k \in 1..(Len(chunk) - 1) :
            processEscapesAndControls(substr(chunk, 0, k), FALSE, hasHandler).result
              \o processEscapesAndControls(sliceFrom(chunk, k), FALSE, hasHandler).result
            = chunk

\* C25: the escape callback protocol: the callback is called once for each
\* escape sequence that completes in the chunk (ESC and one character other
\* than '[', or ESC '[' and everything up to the first letter), in order of
\* occurrence and with the text of the sequence; the transport is written
\* exactly for the calls that return a non-empty string, with that string.
RECURSIVE C25_Sequences(_)
C25_Sequences(s) ==
  IF s = <<>> THEN <<>>
  ELSE IF Head(s) # ESC THEN C25_Sequences(Tail(s))
  ELSE IF Len(s) < 2 THEN <<>>
  ELSE IF s[2] # 91 THEN <<SubSeq(s, 1, 2)>> \o C25_Sequences(sliceFrom(s, 2))
  ELSE LET letters == {k \in 3..Len(s) : s[k] \in (65..90) \cup (97..122)}
       IN IF letters = {} THEN <<>>
          ELSE LET last == CHOOSE k \in letters : \A j \in letters : k <= j
               IN <<SubSeq(s, 1, last)>> \o C25_Sequences(sliceFrom(s, last))

RECURSIVE C25_Replies(_)
C25_Replies(calls) ==
  IF calls = <<>> THEN <<>>
  ELSE (IF escapeHandler(Head(calls)) # <<>>
          THEN <<escapeHandler(Head(calls))>> ELSE <<>>)
       \o C25_Replies(Tail(calls))

C25_EscapeCallbackProtocol ==
  (fnPc = "out" /\ pc = "filter" /\ hasHandler)
    => /\ fnOut.calls = C25_Sequences(chunk)
       /\ fnOut.replies = C25_Replies(fnOut.calls)
       /\ Len(written) = Len(fnOut.replies)
       /\ \A k \in 1..Len(written) :
            written[k] = [by |-> "escape", data |-> fnOut.replies[k]]

C25_Witness ==
  /\ fnPc = "out" /\ pc = "filter" /\ hasHandler
  /\ chunk = <<97, ESC, 91, 55, 109, ESC, 97, ESC, 91, 54, 110>>
  /\ fnOut.calls = <<<<ESC, 91, 55, 109>>, <<ESC, 97>>, <<ESC, 91, 54, 110>>>>
  /\ dataOf("escape", written) = <<<<SPACE>>, <<ESC, 91, 50, 52, 59, 56, 48, 82>>>>

\* C26: negotiation replies depend only on the negotiation prefix: what
\* negotiate writes for a chunk is what it writes for the chunk's leading
\* triplet run alone, whatever ordinary data follows the break; no reply
\* byte is produced for bytes passed through as data.
C26_RepliesFromPrefixOnly ==
  (/\ fnPc = "out" /\ pc = "parseData" /\ Writable
   /\ chunk[1] = IAC /\ (Len(chunk) < 2 \/ chunk[2] # IAC)
   /\ breakIndex(chunk, 0) >= 0)
    => fnOut.wrote = negotiate(substr(chunk, 0, breakIndex(chunk, 0)), TRUE).wrote

\* C27: adopting a valid external socket establishes the session: once
\* connect has adopted it the connect promise is resolved, its settled flag
\* reads true and the handlers are on the socket, the idle timeout among
\* them, so that a later timeout is a session 'timeout'.
C27_AdoptedHandleEstablished ==
  (extSock = "valid" /\ pc = "awaitConnect")
    => /\ promise.state = "resolved"
       /\ isSettled /\ isResolved
       /\ sockTimer = Timeout

====
